---- MODULE Spec2Model ----
(***************************************************************************)
(* Model of shelly/index.js: the spot-price LED illuminator script for the *)
(* Shelly Plus Plug.  Strings the script inspects character by character   *)
(* (colour tokens, the clock string) are sequences of character codes, as  *)
(* String.at() of the script engine yields them.  Prices are integers in a *)
(* fixed small unit; only their order matters to the script.               *)
(***************************************************************************)
EXTENDS Integers, Sequences, FiniteSets, TLC

\* ---------------------------------------------------------------- bounds
MaxEntries == 3      \* longest colour map drawn for the running script
MaxInFlight == 2     \* cap on outstanding HTTP.GET calls
PriceDepth == 3      \* how far below zero the prices of the responses go
MaxPrice == 3        \* highest price a response carries
MaxCfgEntries == 2   \* longest colour map drawn for the validation runs

\* ------------------------------------------------------ values and strings
Undefined == -1      \* what at() yields past the end of a string
DIE == -2            \* a function that called die() or threw
DieSeq == <<DIE>>    \* the same, where the function yields a string or a list

\* The result of String.at(i), 0-based
at(s, i) == IF i >= 0 /\ i < Len(s) THEN s[i + 1] ELSE Undefined

\* The result of String.slice(a, b), 0-based, end exclusive
slice(s, a, b) ==
    LET e == IF b < Len(s) THEN b ELSE Len(s)
    IN  IF a >= e THEN << >> ELSE [k \in 1..(e - a) |-> s[a + k]]

COLOR_NAMES == <<
    [name |-> <<97,108,105,99,101,98,108,117,101>>, rgb |-> <<35,70,48,70,56,70,70>>],  \* aliceblue #F0F8FF
    [name |-> <<97,110,116,105,113,117,101,119,104,105,116,101>>, rgb |-> <<35,70,65,69,66,68,55>>],  \* antiquewhite #FAEBD7
    [name |-> <<97,113,117,97>>, rgb |-> <<35,48,48,70,70,70,70>>],  \* aqua #00FFFF
    [name |-> <<97,113,117,97,109,97,114,105,110,101>>, rgb |-> <<35,55,70,70,70,68,52>>],  \* aquamarine #7FFFD4
    [name |-> <<97,122,117,114,101>>, rgb |-> <<35,70,48,70,70,70,70>>],  \* azure #F0FFFF
    [name |-> <<98,101,105,103,101>>, rgb |-> <<35,70,53,70,53,68,67>>],  \* beige #F5F5DC
    [name |-> <<98,105,115,113,117,101>>, rgb |-> <<35,70,70,69,52,67,52>>],  \* bisque #FFE4C4
    [name |-> <<98,108,97,99,107>>, rgb |-> <<35,48,48,48,48,48,48>>],  \* black #000000
    [name |-> <<98,108,97,110,99,104,101,100,97,108,109,111,110,100>>, rgb |-> <<35,70,70,69,66,67,68>>],  \* blanchedalmond #FFEBCD
    [name |-> <<98,108,117,101>>, rgb |-> <<35,48,48,48,48,70,70>>],  \* blue #0000FF
    [name |-> <<98,108,117,101,118,105,111,108,101,116>>, rgb |-> <<35,56,65,50,66,69,50>>],  \* blueviolet #8A2BE2
    [name |-> <<98,114,111,119,110>>, rgb |-> <<35,65,53,50,65,50,65>>],  \* brown #A52A2A
    [name |-> <<98,117,114,108,121,119,111,111,100>>, rgb |-> <<35,68,69,66,56,56,55>>],  \* burlywood #DEB887
    [name |-> <<99,97,100,101,116,98,108,117,101>>, rgb |-> <<35,53,70,57,69,65,48>>],  \* cadetblue #5F9EA0
    [name |-> <<99,104,97,114,116,114,101,117,115,101>>, rgb |-> <<35,55,70,70,70,48,48>>],  \* chartreuse #7FFF00
    [name |-> <<99,104,111,99,111,108,97,116,101>>, rgb |-> <<35,68,50,54,57,49,69>>],  \* chocolate #D2691E
    [name |-> <<99,111,114,97,108>>, rgb |-> <<35,70,70,55,70,53,48>>],  \* coral #FF7F50
    [name |-> <<99,111,114,110,102,108,111,119,101,114,98,108,117,101>>, rgb |-> <<35,54,52,57,53,69,68>>],  \* cornflowerblue #6495ED
    [name |-> <<99,111,114,110,115,105,108,107>>, rgb |-> <<35,70,70,70,56,68,67>>],  \* cornsilk #FFF8DC
    [name |-> <<99,114,105,109,115,111,110>>, rgb |-> <<35,68,67,49,52,51,67>>],  \* crimson #DC143C
    [name |-> <<99,121,97,110>>, rgb |-> <<35,48,48,70,70,70,70>>],  \* cyan #00FFFF
    [name |-> <<100,97,114,107,98,108,117,101>>, rgb |-> <<35,48,48,48,48,56,66>>],  \* darkblue #00008B
    [name |-> <<100,97,114,107,99,121,97,110>>, rgb |-> <<35,48,48,56,66,56,66>>],  \* darkcyan #008B8B
    [name |-> <<100,97,114,107,103,111,108,100,101,110,114,111,100>>, rgb |-> <<35,66,56,56,54,48,66>>],  \* darkgoldenrod #B8860B
    [name |-> <<100,97,114,107,103,114,97,121>>, rgb |-> <<35,65,57,65,57,65,57>>],  \* darkgray #A9A9A9
    [name |-> <<100,97,114,107,103,114,101,101,110>>, rgb |-> <<35,48,48,54,52,48,48>>],  \* darkgreen #006400
    [name |-> <<100,97,114,107,103,114,101,121>>, rgb |-> <<35,65,57,65,57,65,57>>],  \* darkgrey #A9A9A9
    [name |-> <<100,97,114,107,107,104,97,107,105>>, rgb |-> <<35,66,68,66,55,54,66>>],  \* darkkhaki #BDB76B
    [name |-> <<100,97,114,107,109,97,103,101,110,116,97>>, rgb |-> <<35,56,66,48,48,56,66>>],  \* darkmagenta #8B008B
    [name |-> <<100,97,114,107,111,108,105,118,101,103,114,101,101,110>>, rgb |-> <<35,53,53,54,66,50,70>>],  \* darkolivegreen #556B2F
    [name |-> <<100,97,114,107,111,114,97,110,103,101>>, rgb |-> <<35,70,70,56,67,48,48>>],  \* darkorange #FF8C00
    [name |-> <<100,97,114,107,111,114,99,104,105,100>>, rgb |-> <<35,57,57,51,50,67,67>>],  \* darkorchid #9932CC
    [name |-> <<100,97,114,107,114,101,100>>, rgb |-> <<35,56,66,48,48,48,48>>],  \* darkred #8B0000
    [name |-> <<100,97,114,107,115,97,108,109,111,110>>, rgb |-> <<35,69,57,57,54,55,65>>],  \* darksalmon #E9967A
    [name |-> <<100,97,114,107,115,101,97,103,114,101,101,110>>, rgb |-> <<35,56,70,66,67,56,70>>],  \* darkseagreen #8FBC8F
    [name |-> <<100,97,114,107,115,108,97,116,101,98,108,117,101>>, rgb |-> <<35,52,56,51,68,56,66>>],  \* darkslateblue #483D8B
    [name |-> <<100,97,114,107,115,108,97,116,101,103,114,97,121>>, rgb |-> <<35,50,70,52,70,52,70>>],  \* darkslategray #2F4F4F
    [name |-> <<100,97,114,107,115,108,97,116,101,103,114,101,121>>, rgb |-> <<35,50,70,52,70,52,70>>],  \* darkslategrey #2F4F4F
    [name |-> <<100,97,114,107,116,117,114,113,117,111,105,115,101>>, rgb |-> <<35,48,48,67,69,68,49>>],  \* darkturquoise #00CED1
    [name |-> <<100,97,114,107,118,105,111,108,101,116>>, rgb |-> <<35,57,52,48,48,68,51>>],  \* darkviolet #9400D3
    [name |-> <<100,101,101,112,112,105,110,107>>, rgb |-> <<35,70,70,49,52,57,51>>],  \* deeppink #FF1493
    [name |-> <<100,101,101,112,115,107,121,98,108,117,101>>, rgb |-> <<35,48,48,66,70,70,70>>],  \* deepskyblue #00BFFF
    [name |-> <<100,105,109,103,114,97,121>>, rgb |-> <<35,54,57,54,57,54,57>>],  \* dimgray #696969
    [name |-> <<100,105,109,103,114,101,121>>, rgb |-> <<35,54,57,54,57,54,57>>],  \* dimgrey #696969
    [name |-> <<100,111,100,103,101,114,98,108,117,101>>, rgb |-> <<35,49,69,57,48,70,70>>],  \* dodgerblue #1E90FF
    [name |-> <<102,105,114,101,98,114,105,99,107>>, rgb |-> <<35,66,50,50,50,50,50>>],  \* firebrick #B22222
    [name |-> <<102,108,111,114,97,108,119,104,105,116,101>>, rgb |-> <<35,70,70,70,65,70,48>>],  \* floralwhite #FFFAF0
    [name |-> <<102,111,114,101,115,116,103,114,101,101,110>>, rgb |-> <<35,50,50,56,66,50,50>>],  \* forestgreen #228B22
    [name |-> <<102,117,99,104,115,105,97>>, rgb |-> <<35,70,70,48,48,70,70>>],  \* fuchsia #FF00FF
    [name |-> <<103,97,105,110,115,98,111,114,111>>, rgb |-> <<35,68,67,68,67,68,67>>],  \* gainsboro #DCDCDC
    [name |-> <<103,104,111,115,116,119,104,105,116,101>>, rgb |-> <<35,70,56,70,56,70,70>>],  \* ghostwhite #F8F8FF
    [name |-> <<103,111,108,100>>, rgb |-> <<35,70,70,68,55,48,48>>],  \* gold #FFD700
    [name |-> <<103,111,108,100,101,110,114,111,100>>, rgb |-> <<35,68,65,65,53,50,48>>],  \* goldenrod #DAA520
    [name |-> <<103,114,97,121>>, rgb |-> <<35,56,48,56,48,56,48>>],  \* gray #808080
    [name |-> <<103,114,101,101,110>>, rgb |-> <<35,48,48,56,48,48,48>>],  \* green #008000
    [name |-> <<103,114,101,101,110,121,101,108,108,111,119>>, rgb |-> <<35,65,68,70,70,50,70>>],  \* greenyellow #ADFF2F
    [name |-> <<103,114,101,121>>, rgb |-> <<35,56,48,56,48,56,48>>],  \* grey #808080
    [name |-> <<104,111,110,101,121,100,101,119>>, rgb |-> <<35,70,48,70,70,70,48>>],  \* honeydew #F0FFF0
    [name |-> <<104,111,116,112,105,110,107>>, rgb |-> <<35,70,70,54,57,66,52>>],  \* hotpink #FF69B4
    [name |-> <<105,110,100,105,97,110,114,101,100>>, rgb |-> <<35,67,68,53,67,53,67>>],  \* indianred #CD5C5C
    [name |-> <<105,110,100,105,103,111>>, rgb |-> <<35,52,66,48,48,56,50>>],  \* indigo #4B0082
    [name |-> <<105,118,111,114,121>>, rgb |-> <<35,70,70,70,70,70,48>>],  \* ivory #FFFFF0
    [name |-> <<107,104,97,107,105>>, rgb |-> <<35,70,48,69,54,56,67>>],  \* khaki #F0E68C
    [name |-> <<108,97,118,101,110,100,101,114>>, rgb |-> <<35,69,54,69,54,70,65>>],  \* lavender #E6E6FA
    [name |-> <<108,97,118,101,110,100,101,114,98,108,117,115,104>>, rgb |-> <<35,70,70,70,48,70,53>>],  \* lavenderblush #FFF0F5
    [name |-> <<108,97,119,110,103,114,101,101,110>>, rgb |-> <<35,55,67,70,67,48,48>>],  \* lawngreen #7CFC00
    [name |-> <<108,101,109,111,110,99,104,105,102,102,111,110>>, rgb |-> <<35,70,70,70,65,67,68>>],  \* lemonchiffon #FFFACD
    [name |-> <<108,105,103,104,116,98,108,117,101>>, rgb |-> <<35,65,68,68,56,69,54>>],  \* lightblue #ADD8E6
    [name |-> <<108,105,103,104,116,99,111,114,97,108>>, rgb |-> <<35,70,48,56,48,56,48>>],  \* lightcoral #F08080
    [name |-> <<108,105,103,104,116,99,121,97,110>>, rgb |-> <<35,69,48,70,70,70,70>>],  \* lightcyan #E0FFFF
    [name |-> <<108,105,103,104,116,103,111,108,100,101,110,114,111,100,121,101,108,108,111,119>>, rgb |-> <<35,70,65,70,65,68,50>>],  \* lightgoldenrodyellow #FAFAD2
    [name |-> <<108,105,103,104,116,103,114,97,121>>, rgb |-> <<35,68,51,68,51,68,51>>],  \* lightgray #D3D3D3
    [name |-> <<108,105,103,104,116,103,114,101,101,110>>, rgb |-> <<35,57,48,69,69,57,48>>],  \* lightgreen #90EE90
    [name |-> <<108,105,103,104,116,103,114,101,121>>, rgb |-> <<35,68,51,68,51,68,51>>],  \* lightgrey #D3D3D3
    [name |-> <<108,105,103,104,116,112,105,110,107>>, rgb |-> <<35,70,70,66,54,67,49>>],  \* lightpink #FFB6C1
    [name |-> <<108,105,103,104,116,115,97,108,109,111,110>>, rgb |-> <<35,70,70,65,48,55,65>>],  \* lightsalmon #FFA07A
    [name |-> <<108,105,103,104,116,115,101,97,103,114,101,101,110>>, rgb |-> <<35,50,48,66,50,65,65>>],  \* lightseagreen #20B2AA
    [name |-> <<108,105,103,104,116,115,107,121,98,108,117,101>>, rgb |-> <<35,56,55,67,69,70,65>>],  \* lightskyblue #87CEFA
    [name |-> <<108,105,103,104,116,115,108,97,116,101,103,114,97,121>>, rgb |-> <<35,55,55,56,56,57,57>>],  \* lightslategray #778899
    [name |-> <<108,105,103,104,116,115,108,97,116,101,103,114,101,121>>, rgb |-> <<35,55,55,56,56,57,57>>],  \* lightslategrey #778899
    [name |-> <<108,105,103,104,116,115,116,101,101,108,98,108,117,101>>, rgb |-> <<35,66,48,67,52,68,69>>],  \* lightsteelblue #B0C4DE
    [name |-> <<108,105,103,104,116,121,101,108,108,111,119>>, rgb |-> <<35,70,70,70,70,69,48>>],  \* lightyellow #FFFFE0
    [name |-> <<108,105,109,101>>, rgb |-> <<35,48,48,70,70,48,48>>],  \* lime #00FF00
    [name |-> <<108,105,109,101,103,114,101,101,110>>, rgb |-> <<35,51,50,67,68,51,50>>],  \* limegreen #32CD32
    [name |-> <<108,105,110,101,110>>, rgb |-> <<35,70,65,70,48,69,54>>],  \* linen #FAF0E6
    [name |-> <<109,97,103,101,110,116,97>>, rgb |-> <<35,70,70,48,48,70,70>>],  \* magenta #FF00FF
    [name |-> <<109,97,114,111,111,110>>, rgb |-> <<35,56,48,48,48,48,48>>],  \* maroon #800000
    [name |-> <<109,101,100,105,117,109,97,113,117,97,109,97,114,105,110,101>>, rgb |-> <<35,54,54,67,68,65,65>>],  \* mediumaquamarine #66CDAA
    [name |-> <<109,101,100,105,117,109,98,108,117,101>>, rgb |-> <<35,48,48,48,48,67,68>>],  \* mediumblue #0000CD
    [name |-> <<109,101,100,105,117,109,111,114,99,104,105,100>>, rgb |-> <<35,66,65,53,53,68,51>>],  \* mediumorchid #BA55D3
    [name |-> <<109,101,100,105,117,109,112,117,114,112,108,101>>, rgb |-> <<35,57,51,55,48,68,66>>],  \* mediumpurple #9370DB
    [name |-> <<109,101,100,105,117,109,115,101,97,103,114,101,101,110>>, rgb |-> <<35,51,67,66,51,55,49>>],  \* mediumseagreen #3CB371
    [name |-> <<109,101,100,105,117,109,115,108,97,116,101,98,108,117,101>>, rgb |-> <<35,55,66,54,56,69,69>>],  \* mediumslateblue #7B68EE
    [name |-> <<109,101,100,105,117,109,115,112,114,105,110,103,103,114,101,101,110>>, rgb |-> <<35,48,48,70,65,57,65>>],  \* mediumspringgreen #00FA9A
    [name |-> <<109,101,100,105,117,109,116,117,114,113,117,111,105,115,101>>, rgb |-> <<35,52,56,68,49,67,67>>],  \* mediumturquoise #48D1CC
    [name |-> <<109,101,100,105,117,109,118,105,111,108,101,116,114,101,100>>, rgb |-> <<35,67,55,49,53,56,53>>],  \* mediumvioletred #C71585
    [name |-> <<109,105,100,110,105,103,104,116,98,108,117,101>>, rgb |-> <<35,49,57,49,57,55,48>>],  \* midnightblue #191970
    [name |-> <<109,105,110,116,99,114,101,97,109>>, rgb |-> <<35,70,53,70,70,70,65>>],  \* mintcream #F5FFFA
    [name |-> <<109,105,115,116,121,114,111,115,101>>, rgb |-> <<35,70,70,69,52,69,49>>],  \* mistyrose #FFE4E1
    [name |-> <<109,111,99,99,97,115,105,110>>, rgb |-> <<35,70,70,69,52,66,53>>],  \* moccasin #FFE4B5
    [name |-> <<110,97,118,97,106,111,119,104,105,116,101>>, rgb |-> <<35,70,70,68,69,65,68>>],  \* navajowhite #FFDEAD
    [name |-> <<110,97,118,121>>, rgb |-> <<35,48,48,48,48,56,48>>],  \* navy #000080
    [name |-> <<111,108,100,108,97,99,101>>, rgb |-> <<35,70,68,70,53,69,54>>],  \* oldlace #FDF5E6
    [name |-> <<111,108,105,118,101>>, rgb |-> <<35,56,48,56,48,48,48>>],  \* olive #808000
    [name |-> <<111,108,105,118,101,100,114,97,98>>, rgb |-> <<35,54,66,56,69,50,51>>],  \* olivedrab #6B8E23
    [name |-> <<111,114,97,110,103,101>>, rgb |-> <<35,70,70,65,53,48,48>>],  \* orange #FFA500
    [name |-> <<111,114,97,110,103,101,114,101,100>>, rgb |-> <<35,70,70,52,53,48,48>>],  \* orangered #FF4500
    [name |-> <<111,114,99,104,105,100>>, rgb |-> <<35,68,65,55,48,68,54>>],  \* orchid #DA70D6
    [name |-> <<112,97,108,101,103,111,108,100,101,110,114,111,100>>, rgb |-> <<35,69,69,69,56,65,65>>],  \* palegoldenrod #EEE8AA
    [name |-> <<112,97,108,101,103,114,101,101,110>>, rgb |-> <<35,57,56,70,66,57,56>>],  \* palegreen #98FB98
    [name |-> <<112,97,108,101,116,117,114,113,117,111,105,115,101>>, rgb |-> <<35,65,70,69,69,69,69>>],  \* paleturquoise #AFEEEE
    [name |-> <<112,97,108,101,118,105,111,108,101,116,114,101,100>>, rgb |-> <<35,68,66,55,48,57,51>>],  \* palevioletred #DB7093
    [name |-> <<112,97,112,97,121,97,119,104,105,112>>, rgb |-> <<35,70,70,69,70,68,53>>],  \* papayawhip #FFEFD5
    [name |-> <<112,101,97,99,104,112,117,102,102>>, rgb |-> <<35,70,70,68,65,66,57>>],  \* peachpuff #FFDAB9
    [name |-> <<112,101,114,117>>, rgb |-> <<35,67,68,56,53,51,70>>],  \* peru #CD853F
    [name |-> <<112,105,110,107>>, rgb |-> <<35,70,70,67,48,67,66>>],  \* pink #FFC0CB
    [name |-> <<112,108,117,109>>, rgb |-> <<35,68,68,65,48,68,68>>],  \* plum #DDA0DD
    [name |-> <<112,111,119,100,101,114,98,108,117,101>>, rgb |-> <<35,66,48,69,48,69,54>>],  \* powderblue #B0E0E6
    [name |-> <<112,117,114,112,108,101>>, rgb |-> <<35,56,48,48,48,56,48>>],  \* purple #800080
    [name |-> <<114,101,98,101,99,99,97,112,117,114,112,108,101>>, rgb |-> <<35,54,54,51,51,57,57>>],  \* rebeccapurple #663399
    [name |-> <<114,101,100>>, rgb |-> <<35,70,70,48,48,48,48>>],  \* red #FF0000
    [name |-> <<114,111,115,121,98,114,111,119,110>>, rgb |-> <<35,66,67,56,70,56,70>>],  \* rosybrown #BC8F8F
    [name |-> <<114,111,121,97,108,98,108,117,101>>, rgb |-> <<35,52,49,54,57,69,49>>],  \* royalblue #4169E1
    [name |-> <<115,97,100,100,108,101,98,114,111,119,110>>, rgb |-> <<35,56,66,52,53,49,51>>],  \* saddlebrown #8B4513
    [name |-> <<115,97,108,109,111,110>>, rgb |-> <<35,70,65,56,48,55,50>>],  \* salmon #FA8072
    [name |-> <<115,97,110,100,121,98,114,111,119,110>>, rgb |-> <<35,70,52,65,52,54,48>>],  \* sandybrown #F4A460
    [name |-> <<115,101,97,103,114,101,101,110>>, rgb |-> <<35,50,69,56,66,53,55>>],  \* seagreen #2E8B57
    [name |-> <<115,101,97,115,104,101,108,108>>, rgb |-> <<35,70,70,70,53,69,69>>],  \* seashell #FFF5EE
    [name |-> <<115,105,101,110,110,97>>, rgb |-> <<35,65,48,53,50,50,68>>],  \* sienna #A0522D
    [name |-> <<115,105,108,118,101,114>>, rgb |-> <<35,67,48,67,48,67,48>>],  \* silver #C0C0C0
    [name |-> <<115,107,121,98,108,117,101>>, rgb |-> <<35,56,55,67,69,69,66>>],  \* skyblue #87CEEB
    [name |-> <<115,108,97,116,101,98,108,117,101>>, rgb |-> <<35,54,65,53,65,67,68>>],  \* slateblue #6A5ACD
    [name |-> <<115,108,97,116,101,103,114,97,121>>, rgb |-> <<35,55,48,56,48,57,48>>],  \* slategray #708090
    [name |-> <<115,108,97,116,101,103,114,101,121>>, rgb |-> <<35,55,48,56,48,57,48>>],  \* slategrey #708090
    [name |-> <<115,110,111,119>>, rgb |-> <<35,70,70,70,65,70,65>>],  \* snow #FFFAFA
    [name |-> <<115,112,114,105,110,103,103,114,101,101,110>>, rgb |-> <<35,48,48,70,70,55,70>>],  \* springgreen #00FF7F
    [name |-> <<115,116,101,101,108,98,108,117,101>>, rgb |-> <<35,52,54,56,50,66,52>>],  \* steelblue #4682B4
    [name |-> <<116,97,110>>, rgb |-> <<35,68,50,66,52,56,67>>],  \* tan #D2B48C
    [name |-> <<116,101,97,108>>, rgb |-> <<35,48,48,56,48,56,48>>],  \* teal #008080
    [name |-> <<116,104,105,115,116,108,101>>, rgb |-> <<35,68,56,66,70,68,56>>],  \* thistle #D8BFD8
    [name |-> <<116,111,109,97,116,111>>, rgb |-> <<35,70,70,54,51,52,55>>],  \* tomato #FF6347
    [name |-> <<116,117,114,113,117,111,105,115,101>>, rgb |-> <<35,52,48,69,48,68,48>>],  \* turquoise #40E0D0
    [name |-> <<118,105,111,108,101,116>>, rgb |-> <<35,69,69,56,50,69,69>>],  \* violet #EE82EE
    [name |-> <<119,104,101,97,116>>, rgb |-> <<35,70,53,68,69,66,51>>],  \* wheat #F5DEB3
    [name |-> <<119,104,105,116,101>>, rgb |-> <<35,70,70,70,70,70,70>>],  \* white #FFFFFF
    [name |-> <<119,104,105,116,101,115,109,111,107,101>>, rgb |-> <<35,70,53,70,53,70,53>>],  \* whitesmoke #F5F5F5
    [name |-> <<121,101,108,108,111,119>>, rgb |-> <<35,70,70,70,70,48,48>>],  \* yellow #FFFF00
    [name |-> <<121,101,108,108,111,119,103,114,101,101,110>>, rgb |-> <<35,57,65,67,68,51,50>>]   \* yellowgreen #9ACD32
>>

DEBUG == FALSE

\* String '0',...,'F' -> 0,...,15, die() otherwise
hexCharToInt(hexChar) ==
    IF hexChar > 96 /\ hexChar < 103 THEN 10 + (hexChar - 97)
    ELSE IF hexChar > 64 /\ hexChar < 71 THEN 10 + (hexChar - 65)
    ELSE IF hexChar > 47 /\ hexChar < 58 THEN hexChar - 48
    ELSE DIE

\* HH string -> integer
hexToInt(hex) ==
    LET hi == hexCharToInt(at(hex, 0))
        lo == hexCharToInt(at(hex, 1))
    IN  IF hi = DIE \/ lo = DIE THEN DIE ELSE 16 * hi + lo

\* Math.round(x * 0.392156) for an integer x >= 0
\* (variant: the product cut off, not rounded)
RoundScaledTrunc(x) == (x * 392156) \div 1000000

RoundScaled(x) == (x * 392156 + 500000) \div 1000000

\* HH string -> shelly rgb integer
hexToShellyColorValue(hex) ==
    LET v == hexToInt(hex) IN IF v = DIE THEN DIE ELSE RoundScaled(v)

\* RGB string -> << shelly rgb integers >>
RGBStringToShellyValues(rgbString) ==
    LET r == hexToShellyColorValue(slice(rgbString, 1, 3))
        g == hexToShellyColorValue(slice(rgbString, 3, 5))
        b == hexToShellyColorValue(slice(rgbString, 5, 7))
    IN  IF r = DIE \/ g = DIE \/ b = DIE THEN DieSeq ELSE <<r, g, b>>

\* The rgb string of the first table row with that name, die() if none
colorNameToRGBString(name) ==
    LET hits == {i \in 1..Len(COLOR_NAMES) : COLOR_NAMES[i].name = name}
    IN  IF hits = {} THEN DieSeq
        ELSE COLOR_NAMES[CHOOSE i \in hits : \A j \in hits : i <= j].rgb

brightnessInRange(brightness) == 0 <= brightness /\ 100 >= brightness

\* ------------------------------------------------------------ checkConfig
\* (variant: equal floors pass)
RECURSIVE orderLoopLax(_, _)
orderLoopLax(map, i) ==
    IF ~(i < Len(map)) THEN ""
    ELSE IF map[i].fromPriceWithTax > map[i + 1].fromPriceWithTax THEN "order"
    ELSE orderLoopLax(map, i + 1)

\* for( i=1; i < length; i++ ) of checkConfig: the floors rise strictly
RECURSIVE orderLoop(_, _)
orderLoop(map, i) ==
    IF ~(i < Len(map)) THEN ""
    ELSE IF map[i].fromPriceWithTax >= map[i + 1].fromPriceWithTax THEN "order"
    ELSE orderLoop(map, i + 1)

\* for( i=0; i < length; i++ ) of checkConfig: brightness values in range
RECURSIVE brightnessLoop(_, _)
brightnessLoop(map, i) ==
    IF ~(i < Len(map)) THEN ""
    ELSE IF ~brightnessInRange(map[i + 1].onBrightness) THEN "onBrightness"
    ELSE IF ~brightnessInRange(map[i + 1].offBrightness) THEN "offBrightness"
    ELSE brightnessLoop(map, i + 1)

\* for( i=0; i < length; i++ ) of checkConfig: precalculate the RGB values
RECURSIVE precalcLoop(_, _)
precalcLoop(map, i) ==
    IF ~(i < Len(map)) THEN [die |-> "", map |-> map]
    ELSE LET color == map[i + 1].color
             rgbString == IF at(color, 0) = 35 THEN color
                          ELSE colorNameToRGBString(color)
         IN  IF rgbString = DieSeq THEN [die |-> "color", map |-> map]
             ELSE LET v == RGBStringToShellyValues(rgbString)
                  IN  IF v = DieSeq THEN [die |-> "hex", map |-> map]
                      ELSE precalcLoop([map EXCEPT ![i + 1].shellyRGB = v], i + 1)

\* The validation part of checkConfig: the reason it stopped the script for
\* ("" when it did not) and the colour map it leaves behind.  No statement
\* looks at the length of the map before priceColorMap[0].fromPriceWithTax
\* is read: on an empty map that read throws, which is the stop "fault".
checkMap(map) ==
    IF Len(map) = 0 THEN [die |-> "fault", map |-> map]
    ELSE IF map[1].fromPriceWithTax > 0 THEN [die |-> "first", map |-> map]
    ELSE IF orderLoop(map, 1) # "" THEN [die |-> orderLoop(map, 1), map |-> map]
    ELSE IF brightnessLoop(map, 0) # ""
         THEN [die |-> brightnessLoop(map, 0), map |-> map]
    ELSE precalcLoop(map, 0)

\* ------------------------------------------------------------- the lights
\* The PLUGS_UI.SetConfig calls configureLight issues, given the device's
\* configuration as it reads it
\* (variant: the off colour is the on colour object itself, not a copy)
configureLightShared(uiConfig, shellyRGB, onBrightness, offBrightness) ==
    LET onColorConfig == [rgb |-> shellyRGB, brightness |-> offBrightness]
        offColorConfig == onColorConfig
    IN  IF uiConfig.mode = "switch"
        THEN << [uiConfig EXCEPT !.on = onColorConfig, !.off = offColorConfig] >>
        ELSE << >>

\* (variant: the mode set to "switch" along with the colours)
configureLightSetsMode(uiConfig, shellyRGB, onBrightness, offBrightness) ==
    LET onColorConfig == [rgb |-> shellyRGB, brightness |-> onBrightness]
        offColorConfig == [onColorConfig EXCEPT !.brightness = offBrightness]
    IN  << [uiConfig EXCEPT !.mode = "switch", !.on = onColorConfig,
                            !.off = offColorConfig] >>

\* (variant: the colours written whatever the mode)
configureLightAlways(uiConfig, shellyRGB, onBrightness, offBrightness) ==
    LET onColorConfig == [rgb |-> shellyRGB, brightness |-> onBrightness]
        offColorConfig == [onColorConfig EXCEPT !.brightness = offBrightness]
    IN  << [uiConfig EXCEPT !.on = onColorConfig, !.off = offColorConfig] >>

configureLight(uiConfig, shellyRGB, onBrightness, offBrightness) ==
    LET onColorConfig == [rgb |-> shellyRGB, brightness |-> onBrightness]
        offColorConfig == [onColorConfig EXCEPT !.brightness = offBrightness]
    IN  IF uiConfig.mode = "switch"
        THEN << [uiConfig EXCEPT !.on = onColorConfig, !.off = offColorConfig] >>
        ELSE << >>

\* The arguments of a configureLight call
Light(shellyRGB, onBrightness, offBrightness) ==
    [rgb |-> shellyRGB, on |-> onBrightness, off |-> offBrightness]

NoLight == Light(<< >>, Undefined, Undefined)

\* The arguments disConnected passes to configureLight
WhiteName == <<119, 104, 105, 116, 101>>
OfflineLight ==
    Light(RGBStringToShellyValues(colorNameToRGBString(WhiteName)), 50, 10)

\* The light of a colour map entry, as handleResponse passes it
EntryLight(e) == Light(e.shellyRGB, e.onBrightness, e.offBrightness)

\* (variant: a price equal to the floor does not match)
RECURSIVE scanStrict(_, _, _)
scanStrict(map, priceWithTax, i) ==
    IF ~(i >= 0) THEN -1
    ELSE IF priceWithTax > map[i + 1].fromPriceWithTax THEN i
    ELSE scanStrict(map, priceWithTax, i - 1)

\* (variant: the loop stops before the first entry)
RECURSIVE scanSkipFirst(_, _, _)
scanSkipFirst(map, priceWithTax, i) ==
    IF ~(i > 0) THEN -1
    ELSE IF priceWithTax >= map[i + 1].fromPriceWithTax THEN i
    ELSE scanSkipFirst(map, priceWithTax, i - 1)

\* The descending scan of handleResponse: the 0-based index of the entry it
\* stops at, -1 when it runs off the front of the map
RECURSIVE scan(_, _, _)
scan(map, priceWithTax, i) ==
    IF ~(i >= 0) THEN -1
    ELSE IF priceWithTax >= map[i + 1].fromPriceWithTax THEN i
    ELSE scan(map, priceWithTax, i - 1)

\* Shelly.getComponentStatus("sys").time for a minute of the hour: "12:MM"
TimeString(m) == <<49, 50, 58, 48 + (m \div 10), 48 + (m % 10)>>

\* (variant: the minutes read as one hexadecimal number)
isQuarterHex(time) == hexToInt(slice(time, 3, 5)) % 15 = 0

isQuarterOfAnHour(time) ==
    LET minStr == slice(time, 3, 5)
        intMinutes == 10 * hexCharToInt(at(minStr, 0)) + hexCharToInt(at(minStr, 1))
    IN  intMinutes % 15 = 0


\* ------------------------------------------------------------- the inputs
LedModes == {"switch", "power"}

\* The device's LED colours before the script first writes them
FactoryOn == [rgb |-> <<0, 100, 0>>, brightness |-> 80]
FactoryOff == [rgb |-> <<0, 100, 0>>, brightness |-> 80]

Purple == <<112, 117, 114, 112, 108, 101>>          \* "purple"
Green == <<103, 114, 101, 101, 110>>                \* "green"
OrangeRed == <<35, 70, 70, 52, 53, 48, 48>>         \* "#FF4500"

Entry(floor, color, onB, offB) ==
    [fromPriceWithTax |-> floor, color |-> color, onBrightness |-> onB,
     offBrightness |-> offB, shellyRGB |-> << >>]

\* The colour maps of at most n entries over the given values
MapsOver(floors, colors, onBs, offBs, n) ==
    LET entries == {Entry(f, c, a, b) : f \in floors, c \in colors,
                                        a \in onBs, b \in offBs}
    IN  UNION {[1..k -> entries] : k \in 0..n}

\* The colour maps the running script is started with: every arrangement of
\* at most MaxEntries rows out of three (floors in price units)
Rows == {Entry(-1, Purple, 80, 10), Entry(0, Green, 80, 10),
         Entry(2, OrangeRed, 50, 10)}
Maps == UNION {[1..k -> Rows] : k \in 0..MaxEntries}

Minutes == 0..59

\* isQuarterOfAnHour() at each minute of the hour
QuarterAt == [m \in Minutes |-> isQuarterOfAnHour(TimeString(m))]

\* (variants: the flag ignored; no gate at all)
tickGateQuarterOnly(connected, m) == IF DEBUG THEN TRUE ELSE QuarterAt[m]

tickGateAlways(connected, m) == TRUE

\* The condition under which tick issues HTTP.GET, at minute m
tickGate(connected, m) ==
    connected = FALSE \/ (IF DEBUG THEN TRUE ELSE QuarterAt[m])

\* What the HTTP.GET callback is handed: nothing at all, or a status code
\* and a body that does not parse, parses without a PriceWithTax, or parses
\* with one
Responses ==
    {[kind |-> "absent", code |-> 0, price |-> 0],
     [kind |-> "unparsable", code |-> 429, price |-> 0],
     [kind |-> "price", code |-> 429, price |-> 0],
     [kind |-> "unparsable", code |-> 200, price |-> 0],
     [kind |-> "noprice", code |-> 200, price |-> 0]}
    \cup {[kind |-> "price", code |-> 200, price |-> x] : x \in (-PriceDepth)..MaxPrice}

\* What the event handler is handed: info an object or not, its component
\* and event strings or not, and their values
Events ==
    {[infoType |-> "undefined", componentType |-> "undefined",
      eventType |-> "undefined", component |-> "", event |-> ""],
     [infoType |-> "object", componentType |-> "undefined",
      eventType |-> "string", component |-> "", event |-> "connected"],
     [infoType |-> "object", componentType |-> "string",
      eventType |-> "undefined", component |-> "cloud", event |-> ""]}
    \cup {[infoType |-> "object", componentType |-> "string",
           eventType |-> "string", component |-> c, event |-> e] :
             c \in {"cloud", "wifi", "sys"},
             e \in {"connected", "disconnected", "sta_ip_acquired",
                    "sta_disconnected", "scan_done"}}

\* --------------------------------------------------------------- the state
VARIABLES
    pc,                 \* where the script is: a startup statement, running, halted
    priceColorMap,      \* the colour map
    isConnected,        \* the connected flag
    inflight,           \* HTTP.GET calls whose callback has not run yet
    inflightOld,        \* those of them issued no later than the latest timer tick
    uiConfig,           \* the device's plugs_ui configuration
    rpcQueue,           \* PLUGS_UI.SetConfig calls the device has not processed yet
    cloudEnable,        \* the device's cloud configuration
    handlerRegistered,  \* Shelly.addEventHandler was called
    timerSet,           \* Timer.set was called
    dieReason,          \* why the script stopped, "" while it has not
    lastLight,          \* the arguments of the latest configureLight call
    last                \* the latest step: what ran, on what input, what it did

vars == <<pc, priceColorMap, isConnected, inflight, inflightOld, uiConfig, rpcQueue,
          cloudEnable, handlerRegistered, timerSet, dieReason, lastLight, last>>

Step(op, kind, code, arg, issued, entry) ==
    [op |-> op, wasConnected |-> isConnected, kind |-> kind, code |-> code,
     arg |-> arg, issued |-> issued, entry |-> entry,
     \* a disconnect event was handled and no HTTP.GET has been issued since
     afterDisconnect |-> IF op = "event" /\ kind = "disconnect" THEN TRUE
                         ELSE IF issued > 0 THEN FALSE
                         ELSE last.afterDisconnect,
     \* the network has come back for good (set by Settle, never cleared)
     settled |-> last.settled]

InitWith(maps) ==
    /\ pc = "checkConfig"
    /\ priceColorMap \in maps
    /\ isConnected = FALSE
    /\ inflight = 0
    /\ inflightOld = 0
    /\ uiConfig \in {[mode |-> m, on |-> FactoryOn, off |-> FactoryOff] : m \in LedModes}
    /\ rpcQueue = << >>
    /\ cloudEnable \in BOOLEAN
    /\ handlerRegistered = FALSE
    /\ timerSet = FALSE
    /\ dieReason = ""
    /\ lastLight = NoLight
    /\ last = [op |-> "none", wasConnected |-> FALSE, kind |-> "", code |-> 0,
               arg |-> 0, issued |-> 0, entry |-> -1, afterDisconnect |-> FALSE,
               settled |-> FALSE]

Init == InitWith(Maps)

\* ------------------------------------------------------------- the startup
\* checkConfig(): switch the LED mode if needed, then validate the map
\* (variant: a failed validation is reported and the startup runs on)
CheckConfigProceeds ==
    /\ pc = "checkConfig"
    /\ LET calls == IF uiConfig.mode # "switch"
                    THEN << [uiConfig EXCEPT !.mode = "switch"] >> ELSE << >>
           res == checkMap(priceColorMap)
       IN  /\ rpcQueue' = rpcQueue \o calls
           /\ priceColorMap' = res.map
           /\ dieReason' = res.die
           /\ pc' = "addEventHandler"
           /\ last' = Step("checkConfig", res.die, 0, 0, 0, -1)
    /\ UNCHANGED <<isConnected, inflight, inflightOld, uiConfig, cloudEnable,
                   handlerRegistered, timerSet, lastLight>>

CheckConfig ==
    /\ pc = "checkConfig"
    /\ LET calls == IF uiConfig.mode # "switch"
                    THEN << [uiConfig EXCEPT !.mode = "switch"] >> ELSE << >>
           res == checkMap(priceColorMap)
       IN  /\ rpcQueue' = rpcQueue \o calls
           /\ priceColorMap' = res.map
           /\ dieReason' = res.die
           /\ pc' = IF res.die # "" THEN "halted" ELSE "addEventHandler"
           /\ last' = Step("checkConfig", res.die, 0, 0, 0, -1)
    /\ UNCHANGED <<isConnected, inflight, inflightOld, uiConfig, cloudEnable,
                   handlerRegistered, timerSet, lastLight>>

\* Shelly.addEventHandler( handleEvents )
AddEventHandler ==
    /\ pc = "addEventHandler"
    /\ handlerRegistered' = TRUE
    /\ pc' = "disConnected"
    /\ last' = Step("addEventHandler", "", 0, 0, 0, -1)
    /\ UNCHANGED <<priceColorMap, isConnected, inflight, inflightOld, uiConfig,
                   rpcQueue, cloudEnable, timerSet, dieReason, lastLight>>

\* disConnected(): go white, clear the flag
\* (variant: the light set, the flag left alone)
disConnectedLightOnly ==
    /\ rpcQueue' = rpcQueue \o configureLight(uiConfig, OfflineLight.rgb,
                                              OfflineLight.on, OfflineLight.off)
    /\ lastLight' = OfflineLight
    /\ isConnected' = isConnected

\* (variant: the flag cleared, the light left alone)
disConnectedFlagOnly ==
    /\ UNCHANGED <<rpcQueue, lastLight>>
    /\ isConnected' = FALSE

disConnected ==
    /\ rpcQueue' = rpcQueue \o configureLight(uiConfig, OfflineLight.rgb,
                                              OfflineLight.on, OfflineLight.off)
    /\ lastLight' = OfflineLight
    /\ isConnected' = FALSE

\* tick(): issue HTTP.GET when not connected or on the quarter
\* (variant: nothing issued while a call is outstanding)
tickIssuesGuarded(m) == IF inflight = 0 /\ tickGate(isConnected, m) THEN 1 ELSE 0

tickIssues(m) == IF tickGate(isConnected, m) THEN 1 ELSE 0

StartDisConnected ==
    /\ pc = "disConnected"
    /\ disConnected
    /\ pc' = "tick"
    /\ last' = Step("disConnected", "", 0, 0, 0, -1)
    /\ UNCHANGED <<priceColorMap, inflight, inflightOld, uiConfig, cloudEnable,
                   handlerRegistered, timerSet, dieReason>>

StartTickAt(m) ==
    /\ pc = "tick"
    /\ inflight' = inflight + tickIssues(m)
    /\ inflightOld' = inflight'
    /\ last' = Step("startTick", "", 0, 0, tickIssues(m), -1)
    /\ pc' = "timerSet"
    /\ UNCHANGED <<priceColorMap, isConnected, uiConfig, rpcQueue, cloudEnable,
                   handlerRegistered, timerSet, dieReason, lastLight>>

StartTick == \E m \in Minutes : StartTickAt(m)

\* Timer.set( MINUTE_MSECS, true, tick )
TimerSet ==
    /\ pc = "timerSet"
    /\ timerSet' = TRUE
    /\ pc' = "running"
    /\ last' = Step("timerSet", "", 0, 0, 0, -1)
    /\ UNCHANGED <<priceColorMap, isConnected, inflight, inflightOld, uiConfig,
                   rpcQueue, cloudEnable, handlerRegistered, dieReason, lastLight>>

\* ------------------------------------------------------------ the callbacks
\* The periodic timer calls tick().  The timer period (MINUTE_MSECS) exceeds
\* the HTTP.GET timeout (10 s), so every call issued up to the previous timer
\* tick has had its callback by now.
TimerTickAt(m) ==
    /\ pc = "running"
    /\ timerSet
    /\ rpcQueue = << >>
    /\ inflightOld = 0
    /\ inflight + tickIssues(m) <= MaxInFlight
    /\ inflight' = inflight + tickIssues(m)
    /\ inflightOld' = inflight'
    /\ last' = Step("tick", "", 0, 0, tickIssues(m), -1)
    /\ UNCHANGED <<pc, priceColorMap, isConnected, uiConfig, rpcQueue,
                   cloudEnable, handlerRegistered, timerSet, dieReason, lastLight>>

TimerTick == \E m \in Minutes : TimerTickAt(m)

\* connected(): set the flag
\* (variant: the flag left as it is)
connectedStale == isConnected' = isConnected

connected == isConnected' = TRUE

\* The test handleResponse makes before it looks at the body
\* (variant: any status accepted)
responseOkAnyStatus(response) == response.kind # "absent"

responseOk(response) == response.kind # "absent" /\ response.code = 200

\* handleResponse(response): the callback of one HTTP.GET
\* (variant: connected() called once the body has parsed and matched)
handleResponseParseFirst(response) ==
    IF responseOk(response)
    THEN \* connected(), JSON.parse, then the descending scan
         LET i == IF response.kind = "price"
                  THEN scan(priceColorMap, response.price, Len(priceColorMap) - 1)
                  ELSE -1
         IN  /\ IF isConnected = FALSE /\ response.kind # "unparsable" /\ i >= 0
                THEN connected ELSE UNCHANGED isConnected
             /\ IF response.kind = "unparsable"
                THEN /\ pc' = "halted"
                     /\ dieReason' = "parse"
                     /\ UNCHANGED <<rpcQueue, lastLight>>
                     /\ last' = Step("response", response.kind, response.code,
                                     response.price, 0, -1)
                ELSE IF i >= 0
                THEN /\ rpcQueue' = rpcQueue \o
                            configureLight(uiConfig, priceColorMap[i + 1].shellyRGB,
                                           priceColorMap[i + 1].onBrightness,
                                           priceColorMap[i + 1].offBrightness)
                     /\ lastLight' = EntryLight(priceColorMap[i + 1])
                     /\ UNCHANGED <<pc, dieReason>>
                     /\ last' = Step("response", response.kind, response.code,
                                     response.price, 0, i)
                ELSE /\ pc' = "halted"
                     /\ dieReason' = "price"
                     /\ UNCHANGED <<rpcQueue, lastLight>>
                     /\ last' = Step("response", response.kind, response.code,
                                     response.price, 0, -1)
    ELSE /\ IF isConnected = FALSE
            THEN disConnected
            ELSE UNCHANGED <<rpcQueue, lastLight, isConnected>>
         /\ UNCHANGED <<pc, dieReason>>
         /\ last' = Step("response", response.kind, response.code,
                         response.price, 0, -1)

handleResponse(response) ==
    IF responseOk(response)
    THEN \* connected(), JSON.parse, then the descending scan
         LET i == IF response.kind = "price"
                  THEN scan(priceColorMap, response.price, Len(priceColorMap) - 1)
                  ELSE -1
         IN  /\ IF isConnected = FALSE THEN connected ELSE UNCHANGED isConnected
             /\ IF response.kind = "unparsable"
                THEN /\ pc' = "halted"
                     /\ dieReason' = "parse"
                     /\ UNCHANGED <<rpcQueue, lastLight>>
                     /\ last' = Step("response", response.kind, response.code,
                                     response.price, 0, -1)
                ELSE IF i >= 0
                THEN /\ rpcQueue' = rpcQueue \o
                            configureLight(uiConfig, priceColorMap[i + 1].shellyRGB,
                                           priceColorMap[i + 1].onBrightness,
                                           priceColorMap[i + 1].offBrightness)
                     /\ lastLight' = EntryLight(priceColorMap[i + 1])
                     /\ UNCHANGED <<pc, dieReason>>
                     /\ last' = Step("response", response.kind, response.code,
                                     response.price, 0, i)
                ELSE /\ pc' = "halted"
                     /\ dieReason' = "price"
                     /\ UNCHANGED <<rpcQueue, lastLight>>
                     /\ last' = Step("response", response.kind, response.code,
                                     response.price, 0, -1)
    ELSE /\ IF isConnected = FALSE
            THEN disConnected
            ELSE UNCHANGED <<rpcQueue, lastLight, isConnected>>
         /\ UNCHANGED <<pc, dieReason>>
         /\ last' = Step("response", response.kind, response.code,
                         response.price, 0, -1)

\* (variant: a failed call is issued again from its own callback)
HandleResponseOnRetries(response) ==
    /\ pc = "running"
    /\ inflight > 0
    /\ rpcQueue = << >>
    /\ handleResponse(response)
    /\ inflight' = IF responseOk(response) THEN inflight - 1 ELSE inflight
    /\ \/ inflightOld > 0 /\ inflightOld' = inflightOld - 1
       \/ inflight > inflightOld /\ inflightOld' = inflightOld
    /\ UNCHANGED <<priceColorMap, uiConfig, cloudEnable, handlerRegistered, timerSet>>

\* (variant: the callback of an outstanding call still runs after a stop)
HandleResponseOnHalted(response) ==
    /\ pc \in {"running", "halted"}
    /\ inflight > 0
    /\ rpcQueue = << >>
    /\ handleResponse(response)
    /\ inflight' = inflight - 1
    /\ \/ inflightOld > 0 /\ inflightOld' = inflightOld - 1
       \/ inflight > inflightOld /\ inflightOld' = inflightOld
    /\ UNCHANGED <<priceColorMap, uiConfig, cloudEnable, handlerRegistered, timerSet>>

HandleResponseOn(response) ==
    /\ pc = "running"
    /\ inflight > 0
    /\ rpcQueue = << >>
    /\ handleResponse(response)
    /\ inflight' = inflight - 1
    /\ \/ inflightOld > 0 /\ inflightOld' = inflightOld - 1
       \/ inflight > inflightOld /\ inflightOld' = inflightOld
    /\ UNCHANGED <<priceColorMap, uiConfig, cloudEnable, handlerRegistered, timerSet>>

HandleResponse == \E response \in Responses : HandleResponseOn(response)

\* The two tests of handleEvents on a well-formed event
\* (variant: either connect event counts, the cloud enabled or not)
isConnectEventEither(event) ==
    \/ event.component = "cloud" /\ event.event = "connected"
    \/ event.component = "wifi" /\ event.event = "sta_ip_acquired"

isConnectEvent(event) ==
    IF cloudEnable = TRUE
    THEN event.component = "cloud" /\ event.event = "connected"
    ELSE event.component = "wifi" /\ event.event = "sta_ip_acquired"

\* (variant: only the disconnect of the component in use counts)
isDisconnectEventRouted(event) ==
    IF cloudEnable = TRUE
    THEN event.component = "cloud" /\ event.event = "disconnected"
    ELSE event.component = "wifi" /\ event.event = "sta_disconnected"

isDisconnectEvent(event) ==
    \/ event.component = "wifi" /\ event.event = "sta_disconnected"
    \/ event.component = "cloud" /\ event.event = "disconnected"

\* handleEvents(event): tick() on a connect, disConnected() on a disconnect
\* (variant: a connect event calls connected() before tick())
handleEventsConnects(event, m) ==
    IF ~(/\ event.infoType = "object"
         /\ event.componentType = "string"
         /\ event.eventType = "string")
    THEN /\ UNCHANGED <<inflight, rpcQueue, lastLight, isConnected>>
         /\ last' = Step("event", "malformed", 0, 0, 0, -1)
    ELSE LET connect == IF cloudEnable = TRUE
                        THEN event.component = "cloud" /\ event.event = "connected"
                        ELSE event.component = "wifi" /\ event.event = "sta_ip_acquired"
             disconnect == \/ event.component = "wifi" /\ event.event = "sta_disconnected"
                           \/ event.component = "cloud" /\ event.event = "disconnected"
             issued == IF connect /\ (IF DEBUG THEN TRUE ELSE QuarterAt[m]) THEN 1 ELSE 0
         IN  /\ inflight' = inflight + issued
             /\ IF disconnect
                THEN disConnected
                ELSE /\ UNCHANGED <<rpcQueue, lastLight>>
                     /\ isConnected' = (isConnected \/ connect)
             /\ last' = Step("event",
                             IF connect THEN "connect"
                             ELSE IF disconnect THEN "disconnect"
                             ELSE "other", 0, 0, issued, -1)

\* (variant: a disconnect drops the outstanding calls)
handleEventsCancels(event, m) ==
    IF ~(/\ event.infoType = "object"
         /\ event.componentType = "string"
         /\ event.eventType = "string")
    THEN /\ UNCHANGED <<inflight, rpcQueue, lastLight, isConnected>>
         /\ last' = Step("event", "malformed", 0, 0, 0, -1)
    ELSE LET issued == IF isConnectEvent(event) THEN tickIssues(m) ELSE 0
         IN  /\ inflight' = IF isDisconnectEvent(event) THEN 0 ELSE inflight + issued
             /\ IF isDisconnectEvent(event)
                THEN disConnected
                ELSE UNCHANGED <<rpcQueue, lastLight, isConnected>>
             /\ last' = Step("event",
                             IF isConnectEvent(event) THEN "connect"
                             ELSE IF isDisconnectEvent(event) THEN "disconnect"
                             ELSE "other", 0, 0, issued, -1)

handleEvents(event, m) ==
    IF ~(/\ event.infoType = "object"
         /\ event.componentType = "string"
         /\ event.eventType = "string")
    THEN /\ UNCHANGED <<inflight, rpcQueue, lastLight, isConnected>>
         /\ last' = Step("event", "malformed", 0, 0, 0, -1)
    ELSE LET issued == IF isConnectEvent(event) THEN tickIssues(m) ELSE 0
         IN  /\ inflight' = inflight + issued
             /\ IF isDisconnectEvent(event)
                THEN disConnected
                ELSE UNCHANGED <<rpcQueue, lastLight, isConnected>>
             /\ last' = Step("event",
                             IF isConnectEvent(event) THEN "connect"
                             ELSE IF isDisconnectEvent(event) THEN "disconnect"
                             ELSE "other", 0, 0, issued, -1)

HandleEventsOn(event, m) ==
    /\ pc = "running"
    /\ handlerRegistered
    /\ rpcQueue = << >>
    /\ handleEvents(event, m)
    /\ inflight' <= MaxInFlight
    /\ UNCHANGED <<pc, priceColorMap, inflightOld, uiConfig, cloudEnable,
                   handlerRegistered, timerSet, dieReason>>

HandleEvents ==
    \E event \in Events :
       \* only an event that reaches tick() has the clock read
       \E m \in IF isConnectEvent(event) THEN Minutes ELSE {0} :
          HandleEventsOn(event, m)

\* ----------------------------------------------------------- the device
\* The device processes the oldest PLUGS_UI.SetConfig call, or rejects it.
\* It does so before it hands the script its next callback; the statements
\* of the startup run on while the call waits.
SetConfigDone ==
    /\ rpcQueue # << >>
    /\ \E ok \in BOOLEAN :
          /\ uiConfig' = IF ok THEN Head(rpcQueue) ELSE uiConfig
          /\ last' = [Step("setConfigDone", IF ok THEN "ok" ELSE "error", 0, 0, 0, -1)
                        EXCEPT !.wasConnected = FALSE]
    /\ rpcQueue' = Tail(rpcQueue)
    /\ UNCHANGED <<pc, priceColorMap, isConnected, inflight, inflightOld,
                   cloudEnable, handlerRegistered, timerSet, dieReason, lastLight>>

\* The user changes the LED mode in the device's settings
UserSetsLedMode ==
    /\ pc = "running"
    /\ rpcQueue = << >>
    /\ \E m \in LedModes :
          /\ m # uiConfig.mode
          /\ uiConfig' = [uiConfig EXCEPT !.mode = m]
    /\ last' = [Step("userMode", "", 0, 0, 0, -1) EXCEPT !.wasConnected = FALSE]
    /\ UNCHANGED <<pc, priceColorMap, isConnected, inflight, inflightOld, rpcQueue,
                   cloudEnable, handlerRegistered, timerSet, dieReason, lastLight>>

Next ==
    \/ CheckConfig
    \/ AddEventHandler
    \/ StartDisConnected
    \/ StartTick
    \/ TimerSet
    \/ TimerTick
    \/ HandleResponse
    \/ HandleEvents
    \/ SetConfigDone
    \/ UserSetsLedMode

Spec == Init /\ [][Next]_vars

\* The startup alone, over colour maps with every kind of mistake in them
CfgFloors == {-1, 0, 1}
GreenCapital == <<71, 114, 101, 101, 110>>               \* "Green"
BadHex == <<35, 70, 70, 71, 53, 48, 48>>                 \* "#FFG500"
CfgColors == {Green, OrangeRed, GreenCapital, BadHex}
CfgMaps == MapsOver(CfgFloors, CfgColors, {50, 101}, {10, -1}, MaxCfgEntries)

InitStartup == InitWith(CfgMaps)

NextStartup ==
    \/ CheckConfig
    \/ AddEventHandler
    \/ StartDisConnected
    \/ StartTick
    \/ TimerSet
    \/ SetConfigDone

SpecStartup == InitStartup /\ [][NextStartup]_vars

\* The colour conversion alone: the startup over one-row colour maps whose
\* colour is a '#' string of every channel value in every position, in
\* capital and in small digits, or a token of another shape
HexUpper == <<48, 49, 50, 51, 52, 53, 54, 55, 56, 57, 65, 66, 67, 68, 69, 70>>
HexLower == <<48, 49, 50, 51, 52, 53, 54, 55, 56, 57, 97, 98, 99, 100, 101, 102>>

HexPair(x, digits) == <<digits[(x \div 16) + 1], digits[(x % 16) + 1]>>

HexToken(r, g, b, digits) ==
    <<35>> \o HexPair(r, digits) \o HexPair(g, digits) \o HexPair(b, digits)

HexTokens ==
    UNION {{HexToken(x, 0, 255, d), HexToken(255, x, 0, d), HexToken(0, 255, x, d),
            HexToken(x, x, x, d)} : x \in 0..255, d \in {HexUpper, HexLower}}
    \cup {HexToken(163, 0, 255, HexUpper)}

GreenUpper == <<71, 82, 69, 69, 78>>                      \* "GREEN"
NoHash == <<70, 70, 52, 53, 48, 48>>                      \* "FF4500"
HashOnly == <<35>>                                        \* "#"
ThreeDigits == <<35, 70, 70, 70>>                         \* "#FFF"
FiveDigits == <<35, 70, 70, 52, 53, 48>>                  \* "#FF450"
SevenDigits == <<35, 70, 70, 52, 53, 48, 48, 49>>         \* "#FF45001"
EightDigits == <<35, 70, 70, 52, 53, 48, 48, 70, 70>>     \* "#FF4500FF"
TrailingJunk == <<35, 70, 70, 52, 53, 48, 48, 122, 33>>   \* "#FF4500z!"

\* '#' strings of seven characters with one character just outside the
\* ranges hexCharToInt accepts ('/', ':', '@', 'G', '`', 'g'), in each place
NearHexTokens ==
    {[OrangeRed EXCEPT ![k] = c] : k \in 2..7, c \in {47, 58, 64, 71, 96, 103}}

OtherTokens ==
    {Green, Purple, WhiteName, GreenCapital, GreenUpper, NoHash, << >>, HashOnly,
     ThreeDigits, FiveDigits, SevenDigits, EightDigits, TrailingJunk, BadHex}
    \cup NearHexTokens

ColorTokens == HexTokens \cup OtherTokens

InitColors == InitWith({<<Entry(0, c, 80, 10)>> : c \in ColorTokens})

SpecColors == InitColors /\ [][NextStartup]_vars

\* The running script over colour maps that use the colour and brightness
\* of the offline light in a row: white by name or as a '#' string
WhiteHex == <<35, 70, 70, 70, 70, 70, 70>>                \* "#FFFFFF"
WhiteRows == {Entry(-1, Purple, 80, 10), Entry(0, WhiteName, 50, 10),
              Entry(0, WhiteHex, 50, 10), Entry(2, WhiteName, 80, 10)}
WhiteMaps == UNION {[1..k -> WhiteRows] : k \in 0..MaxCfgEntries}

InitWhite == InitWith(WhiteMaps)

SpecWhite == InitWhite /\ [][Next]_vars

\* The running script on a network that comes back for good: from some
\* moment on every fetch is answered with status 200 and a price at or
\* above the first floor, and no disconnect event arrives.  The timer keeps
\* firing, every HTTP.GET gets its callback (an answer, or the timeout
\* after 10 s) and the device gets to every PLUGS_UI.SetConfig call.
GoodResponses ==
    {r \in Responses : /\ r.kind = "price" /\ r.code = 200
                       /\ Len(priceColorMap) > 0
                       /\ r.price >= priceColorMap[1].fromPriceWithTax}

Settle ==
    /\ pc = "running"
    /\ ~last.settled
    /\ last' = [Step("settle", "", 0, 0, 0, -1)
                  EXCEPT !.wasConnected = FALSE, !.settled = TRUE]
    /\ UNCHANGED <<pc, priceColorMap, isConnected, inflight, inflightOld, uiConfig,
                   rpcQueue, cloudEnable, handlerRegistered, timerSet, dieReason,
                   lastLight>>

RecoverResponse ==
    \E response \in IF last.settled THEN GoodResponses ELSE Responses :
       HandleResponseOn(response)

RecoverEvents ==
    \E event \in Events :
       /\ last.settled => ~isDisconnectEvent(event)
       /\ \E m \in IF isConnectEvent(event) THEN Minutes ELSE {0} :
             HandleEventsOn(event, m)

NextRecover ==
    \/ CheckConfig
    \/ AddEventHandler
    \/ StartDisConnected
    \/ StartTick
    \/ TimerSet
    \/ TimerTick
    \/ RecoverResponse
    \/ RecoverEvents
    \/ SetConfigDone
    \/ UserSetsLedMode
    \/ Settle

SpecRecover ==
    /\ Init
    /\ [][NextRecover]_vars
    /\ WF_vars(TimerTick)
    /\ WF_vars(RecoverResponse)
    /\ WF_vars(SetConfigDone)

TypeOK ==
    /\ pc \in {"checkConfig", "addEventHandler", "disConnected", "tick",
               "timerSet", "running", "halted"}
    /\ isConnected \in BOOLEAN
    /\ inflight \in 0..MaxInFlight
    /\ Len(rpcQueue) <= 1

\* ================================================================ claims
\* The 0-based indices of the entries whose floor does not exceed the price
AtOrBelow(map, price) ==
    {k \in 0..(Len(map) - 1) : map[k + 1].fromPriceWithTax <= price}

\* The index among them with the greatest floor
Greatest(map, price) ==
    CHOOSE k \in AtOrBelow(map, price) :
        \A j \in AtOrBelow(map, price) :
            map[j + 1].fromPriceWithTax <= map[k + 1].fromPriceWithTax

\* The latest step was the callback of a status-200 response carrying a price
PricedResponse ==
    last.op = "response" /\ last.code = 200 /\ last.kind = "price"

\* C1: on a successful fetch whose price is at or above the first floor of a
\* validated map, the scan applies the entry with the greatest floor that
\* does not exceed the price; a price equal to a floor selects that entry.
C1_GreatestFloorApplied ==
    (PricedResponse /\ last.arg >= priceColorMap[1].fromPriceWithTax) =>
        /\ last.entry = Greatest(priceColorMap, last.arg)
        /\ lastLight = EntryLight(priceColorMap[last.entry + 1])
        /\ \A k \in 0..(Len(priceColorMap) - 1) :
              last.arg = priceColorMap[k + 1].fromPriceWithTax => last.entry = k

C1_Witness ==
    /\ PricedResponse
    /\ last.entry >= 1
    /\ last.arg = priceColorMap[last.entry + 1].fromPriceWithTax

\* C2 as stated: no finite price of a successful fetch reaches the "price
\* not found in color map" stop.
C2_NoMatchUnreachable == ~(PricedResponse /\ dieReason = "price")

\* C2 amended: a finite price of a successful fetch reaches that stop exactly
\* when it lies below the first floor; at or above it a match is found.
C2_NoMatchOnlyBelowFirstFloor ==
    PricedResponse =>
        (dieReason = "price" <=> last.arg < priceColorMap[1].fromPriceWithTax)

C2_Witness ==
    /\ PricedResponse
    /\ last.arg = priceColorMap[1].fromPriceWithTax
    /\ last.entry = 0
    /\ pc = "running"

\* C3 as stated: at most one HTTP.GET is outstanding at any time.
C3_AtMostOneInFlight == inflight <= 1

\* C3 amended: nothing guards against overlap.  Each step issues at most one
\* HTTP.GET, and a timer tick or connect event in the Offline state issues
\* one whether or not another is outstanding.
C3_NoInFlightGuard ==
    [][/\ inflight' <= inflight + 1
       /\ (/\ last'.op = "tick" \/ (last'.op = "event" /\ last'.kind = "connect")
           /\ ~isConnected)
          => inflight' = inflight + 1]_vars

C3_Witness ==
    /\ last.op = "tick"
    /\ last.issued = 1
    /\ inflight = 2

\* C4: the gate of tick().  Online off the quarter a tick changes nothing;
\* Online at minute 0, 15, 30 or 45 it issues a fetch; Offline it issues one
\* at every minute.
C4_PollingGate ==
    [][last'.op = "tick" =>
          /\ UNCHANGED <<pc, priceColorMap, isConnected, uiConfig, rpcQueue,
                         cloudEnable, handlerRegistered, timerSet, dieReason,
                         lastLight>>
          /\ \A m \in Minutes :
                \* the step is a tick at minute m
                (inflight' = inflight + tickIssues(m)) =>
                   /\ (isConnected /\ m \notin {0, 15, 30, 45}) => inflight' = inflight
                   /\ (isConnected /\ m \in {0, 15, 30, 45}) => inflight' = inflight + 1
                   /\ ~isConnected => inflight' = inflight + 1]_vars

C4_Witness == last.op = "tick" /\ last.wasConnected /\ last.issued = 0

\* C5: a failed fetch (no response, or a status other than 200) completing
\* in the Online state leaves the state Online and writes nothing.
C5_FailureWhileOnline ==
    [][(last'.op = "response" /\ isConnected) =>
          \A r \in Responses :
             (HandleResponseOn(r) /\ (r.kind = "absent" \/ r.code # 200))
                => /\ isConnected'
                   /\ UNCHANGED <<pc, rpcQueue, uiConfig, lastLight, dieReason>>]_vars

C5_Witness ==
    /\ last.op = "response"
    /\ last.wasConnected
    /\ last.code # 200
    /\ isConnected

\* The offline appearance: white at brightness 50 (on) and 10 (off)
White == [rgb |-> <<100, 100, 100>>, on |-> 50, off |-> 10]

\* The configuration a write of the given light carries
Written(config, light) ==
    [config EXCEPT !.on = [rgb |-> light.rgb, brightness |-> light.on],
                   !.off = [rgb |-> light.rgb, brightness |-> light.off]]

\* The light was requested in this step, and written if the mode read is "switch"
Applies(light) ==
    /\ lastLight' = light
    /\ rpcQueue' = IF uiConfig.mode = "switch"
                   THEN Append(rpcQueue, Written(uiConfig, light))
                   ELSE rpcQueue

WellFormed(e) ==
    e.infoType = "object" /\ e.componentType = "string" /\ e.eventType = "string"

\* C6: a disconnect event (wifi sta_disconnected or cloud disconnected), in
\* either state and with the cloud enabled or not, sets the state Offline
\* and applies the offline appearance in the same callback.
C6_DisconnectGoesOffline ==
    [][last'.op = "event" =>
          \A e \in Events :
             (/\ WellFormed(e)
              /\ \/ e.component = "wifi" /\ e.event = "sta_disconnected"
                 \/ e.component = "cloud" /\ e.event = "disconnected"
              /\ HandleEventsOn(e, 0))
                => /\ isConnected' = FALSE
                   /\ Applies(White)
                   /\ UNCHANGED <<pc, inflight>>]_vars

C6_Witness ==
    /\ last.op = "event"
    /\ last.kind = "disconnect"
    /\ last.wasConnected
    /\ ~isConnected
    /\ lastLight = White

\* The appearance of each row of the running script's maps, in device values
RowLight(e) ==
    IF e.fromPriceWithTax = -1 THEN [rgb |-> <<50, 0, 50>>, on |-> 80, off |-> 10]
    ELSE IF e.fromPriceWithTax = 0 THEN [rgb |-> <<0, 50, 0>>, on |-> 80, off |-> 10]
    ELSE [rgb |-> <<100, 27, 0>>, on |-> 50, off |-> 10]

\* C7: a status-200 response with a parsable body whose price matches an
\* entry sets the state Online (from Offline) or leaves it Online, and
\* applies that entry's appearance in the same callback.
C7_SuccessGoesOnline ==
    [][last'.op = "response" =>
          \A r \in Responses :
             (/\ r.code = 200 /\ r.kind = "price"
              /\ AtOrBelow(priceColorMap, r.price) # {}
              /\ HandleResponseOn(r))
                => /\ isConnected' = TRUE
                   /\ pc' = "running"
                   /\ Applies(RowLight(priceColorMap[Greatest(priceColorMap, r.price) + 1]))]_vars

C7_Witness ==
    /\ PricedResponse
    /\ ~last.wasConnected
    /\ isConnected
    /\ last.entry >= 0
    /\ lastLight = RowLight(priceColorMap[last.entry + 1])

\* C8 as stated: handling a connect event always issues a fetch.
C8_ConnectAlwaysFetches ==
    (last.op = "event" /\ last.kind = "connect") => last.issued = 1

\* C8 amended: a connect event runs tick() behind the same gate as the timer:
\* it issues a fetch when the state is Offline or the minute is 0, 15, 30 or
\* 45, and nothing when Online at another minute; it changes nothing else.
C8_ConnectRunsGatedTick ==
    [][(last'.op = "event" /\ last'.kind = "connect") =>
          /\ \A m \in Minutes :
                (inflight' = inflight + tickIssues(m)) =>
                   inflight' = inflight +
                       (IF ~isConnected \/ m \in {0, 15, 30, 45} THEN 1 ELSE 0)
          /\ UNCHANGED <<pc, isConnected, lastLight, rpcQueue, uiConfig>>]_vars

C8_Witness ==
    /\ last.op = "event"
    /\ last.kind = "connect"
    /\ last.wasConnected
    /\ last.issued = 0

\* C9: at startup with a valid map the state is Offline and the offline
\* appearance is applied before any fetch is issued, the startup tick issues
\* the first fetch at any minute, and an appearance other than the offline
\* one is applied only by a fetch completion.
C9_Startup ==
    /\ [](pc \in {"checkConfig", "addEventHandler", "disConnected", "tick"}
            => inflight = 0 /\ lastLight \in {NoLight, White})
    /\ [](pc = "tick" => ~isConnected /\ lastLight = White)
    /\ [](pc = "timerSet" => inflight = 1 /\ ~isConnected /\ lastLight = White)
    /\ [][(pc = "disConnected" /\ pc' = "tick") => Applies(White)]_vars
    /\ [][(lastLight' # lastLight /\ lastLight' # White)
            => last'.op = "response"]_vars

C9_Witness ==
    /\ pc = "timerSet"
    /\ inflight = 1
    /\ ~isConnected
    /\ lastLight = White
    /\ last.issued = 1

\* What is wrong with a colour map, read off its rows
FirstFloorPositive(map) == map[1].fromPriceWithTax > 0

FloorsNotRising(map) ==
    \E i \in 2..Len(map) : map[i - 1].fromPriceWithTax >= map[i].fromPriceWithTax

BadOn(e) == e.onBrightness \notin 0..100

BadOff(e) == e.offBrightness \notin 0..100

BadBrightness(map) == \E i \in 1..Len(map) : BadOn(map[i]) \/ BadOff(map[i])

BadColor(map) == \E i \in 1..Len(map) : map[i].color \in {GreenCapital, BadHex}

\* The first row for which P holds
FirstRow(map, P(_)) ==
    CHOOSE i \in 1..Len(map) : P(map[i]) /\ \A j \in 1..(i - 1) : ~P(map[j])

BadBrightnessRow(e) == BadOn(e) \/ BadOff(e)

BadColorRow(e) == e.color \in {GreenCapital, BadHex}

\* C10: checkConfig stops the script on a first floor above 0, on floors that
\* do not rise strictly, on a brightness outside 0..100, on a colour name
\* that is not in the table and on a '#' string with a non-hex digit; with
\* several mistakes it stops at the first failing check and runs none after.
C10_CheckConfigFailFast ==
    (pc # "checkConfig" /\ Len(priceColorMap) > 0) =>
        LET map == priceColorMap IN
        IF FirstFloorPositive(map) THEN pc = "halted" /\ dieReason = "first"
        ELSE IF FloorsNotRising(map) THEN pc = "halted" /\ dieReason = "order"
        ELSE IF BadBrightness(map)
             THEN /\ pc = "halted"
                  /\ dieReason = IF BadOn(map[FirstRow(map, BadBrightnessRow)])
                                 THEN "onBrightness" ELSE "offBrightness"
                  /\ \A i \in 1..Len(map) : map[i].shellyRGB = << >>
        ELSE IF BadColor(map)
             THEN /\ pc = "halted"
                  /\ dieReason = IF map[FirstRow(map, BadColorRow)].color = BadHex
                                 THEN "hex" ELSE "color"
                  /\ \A i \in 1..Len(map) :
                        (map[i].shellyRGB = << >>) <=> (i >= FirstRow(map, BadColorRow))
        ELSE pc # "halted" /\ dieReason = ""

C10_Witness ==
    /\ pc = "halted"
    /\ dieReason = "order"
    /\ BadBrightness(priceColorMap)
    /\ BadColor(priceColorMap)

\* The stops checkConfig announces with die() and a message of its own
ExplicitStops == {"first", "order", "onBrightness", "offBrightness", "color", "hex"}

\* C11 as stated: an empty colour map is turned down by a check of its own,
\* as the other mistakes are, and not by the read of its first entry
\* throwing.
C11_EmptyTableRejectedByCheck ==
    (pc # "checkConfig" /\ Len(priceColorMap) = 0) =>
        (pc = "halted" /\ dieReason # "fault")

\* A colour map checkConfig does not accept
Invalid(map) ==
    \/ Len(map) = 0
    \/ FirstFloorPositive(map)
    \/ FloorsNotRising(map)
    \/ BadBrightness(map)
    \/ BadColor(map)

\* C12: with a colour map that fails validation the script goes no further
\* than checkConfig: the event handler is never registered, configureLight
\* is never called and no colour reaches the device, no HTTP.GET is issued
\* and the timer is never set.
C12_InvalidMapStopsStartup ==
    Invalid(priceColorMap) =>
        /\ pc \in {"checkConfig", "halted"}
        /\ pc = "halted" => dieReason \in ExplicitStops \cup {"fault"}
        /\ ~handlerRegistered
        /\ lastLight = NoLight
        /\ inflight = 0
        /\ ~timerSet
        /\ uiConfig.on = FactoryOn /\ uiConfig.off = FactoryOff
        /\ \A k \in 1..Len(rpcQueue) :
              rpcQueue[k].on = FactoryOn /\ rpcQueue[k].off = FactoryOff

C12_Witness ==
    /\ pc = "halted"
    /\ dieReason = "hex"
    /\ Len(priceColorMap) = 2
    /\ priceColorMap[1].shellyRGB # << >>
    /\ rpcQueue = << >>
    /\ last.op = "setConfigDone"

\* The character codes of the hex digits, and the value of one of them
HexCodes == {HexUpper[k] : k \in 1..16} \cup {HexLower[k] : k \in 1..16}

DigitOf(c) == CHOOSE d \in 0..15 : HexUpper[d + 1] = c \/ HexLower[d + 1] = c

\* A '#' followed by exactly six hex digits
SixHexDigits(t) == Len(t) = 7 /\ t[1] = 35 /\ \A k \in 2..7 : t[k] \in HexCodes

\* The 8-bit value of channel k (1..3) of such a token
ChannelOf(t, k) == 16 * DigitOf(t[2 * k]) + DigitOf(t[2 * k + 1])

\* The integer nearest to x * 100 / 255 (255 is odd: there are no ties)
NearestOf ==
    [x \in 0..255 |->
        CHOOSE n \in 0..100 : 2 * (255 * n - 100 * x) <= 255
                              /\ 2 * (100 * x - 255 * n) <= 255]

\* C13: for every 8-bit channel value, in each of the three channels and in
\* either letter case, the precalculated device value is the integer nearest
\* to x * 100 / 255 and lies in 0..100; #FFFFFF gives (100, 100, 100),
\* #000000 gives (0, 0, 0) and #A300FF gives (64, 0, 100).
C13_NearestHundredth ==
    (pc # "checkConfig" /\ Len(priceColorMap) = 1
                        /\ SixHexDigits(priceColorMap[1].color)) =>
        LET t == priceColorMap[1].color
            v == priceColorMap[1].shellyRGB
        IN  /\ dieReason = ""
            /\ Len(v) = 3
            /\ \A k \in 1..3 : v[k] = NearestOf[ChannelOf(t, k)] /\ v[k] \in 0..100
            /\ t = HexToken(255, 255, 255, HexUpper) => v = <<100, 100, 100>>
            /\ t = HexToken(0, 0, 0, HexUpper) => v = <<0, 0, 0>>
            /\ t = <<35, 65, 51, 48, 48, 70, 70>> => v = <<64, 0, 100>>

C13_Witness ==
    /\ pc = "running"
    /\ priceColorMap[1].color = <<35, 65, 51, 48, 48, 70, 70>>
    /\ priceColorMap[1].shellyRGB = <<64, 0, 100>>

\* A status-200 response whose body does not parse, or parses to something
\* whose price no entry of the map matches
PayloadError(map, r) ==
    /\ r.kind # "absent" /\ r.code = 200
    /\ \/ r.kind \in {"unparsable", "noprice"}
       \/ r.kind = "price" /\ AtOrBelow(map, r.price) = {}

\* C14: a status-200 response with an unparsable body, or with a price no
\* entry matches, stops the script in that callback with no configureLight
\* call and no write; from then on nothing runs: no fetch is issued, the
\* flag and the device configuration stay as they are.
C14_PayloadErrorsHalt ==
    /\ [][last'.op = "response" =>
             \A r \in Responses :
                (PayloadError(priceColorMap, r) /\ HandleResponseOn(r))
                   => /\ pc' = "halted"
                      /\ dieReason' \in {"parse", "price"}
                      /\ UNCHANGED <<rpcQueue, uiConfig, lastLight>>]_vars
    /\ [][(dieReason = "parse" \/ dieReason = "price") =>
             /\ UNCHANGED <<pc, inflight, isConnected, dieReason>>
             /\ UNCHANGED <<rpcQueue, uiConfig, lastLight>>]_vars

C14_Witness ==
    /\ pc = "halted"
    /\ dieReason = "parse"
    /\ last.op = "response"
    /\ last.wasConnected
    /\ inflight >= 1
    /\ lastLight # White

\* The step recorded in l called configureLight: disConnected() at startup,
\* on a disconnect event or on a failed fetch while Offline, or a fetch
\* completion that matched an entry
CalledConfigureLight(l) ==
    \/ l.op = "disConnected"
    \/ l.op = "event" /\ l.kind = "disconnect"
    \/ l.op = "response" /\ l.entry >= 0
    \/ l.op = "response" /\ (l.kind = "absent" \/ l.code # 200) /\ ~l.wasConnected

\* C15: configureLight writes the colours exactly when the LED mode it reads
\* is "switch"; with any other mode it writes nothing and the script does
\* not stop, and ticks go on issuing fetches and the flag goes on changing
\* as it does in "switch" mode.
C15_WritesOnlyInSwitchMode ==
    /\ [][CalledConfigureLight(last') =>
             /\ rpcQueue' = IF uiConfig.mode = "switch"
                            THEN Append(rpcQueue, Written(uiConfig, lastLight'))
                            ELSE rpcQueue
             /\ pc' # "halted" /\ dieReason' = ""]_vars
    /\ [][(Len(rpcQueue') > Len(rpcQueue) /\ last'.op # "checkConfig")
             => uiConfig.mode = "switch"]_vars
    /\ [][(uiConfig.mode # "switch" /\ pc = "running") =>
             /\ (last'.op = "tick" /\ ~isConnected) => inflight' = inflight + 1
             /\ (last'.op = "response" /\ last'.entry >= 0) => isConnected'
             /\ (last'.op = "event" /\ last'.kind = "disconnect") => ~isConnected'
             /\ (last'.op = "response" /\ last'.code # 200 /\ ~isConnected)
                   => ~isConnected']_vars

C15_Witness ==
    /\ pc = "running"
    /\ uiConfig.mode = "power"
    /\ last.op = "response"
    /\ last.entry >= 0
    /\ ~last.wasConnected
    /\ isConnected
    /\ lastLight # White
    /\ rpcQueue = << >>
    /\ uiConfig.on = FactoryOn

\* C16 as stated: no write of the script changes the LED mode of the device.
C16_ModeNeverWritten ==
    [][last'.op = "setConfigDone" => uiConfig'.mode = uiConfig.mode]_vars

\* C16 amended: the script writes the LED mode once, in checkConfig, when
\* the mode it reads there is not "switch"; that write sets the mode to
\* "switch" and leaves the colours as read.  Every other write carries the
\* mode as read and changes only the on and off colour and brightness.
C16_ModeWrittenOnlyByCheckConfig ==
    /\ [][last'.op = "checkConfig" =>
             rpcQueue' = IF uiConfig.mode # "switch"
                         THEN Append(rpcQueue, [uiConfig EXCEPT !.mode = "switch"])
                         ELSE rpcQueue]_vars
    /\ [][(last'.op # "checkConfig" /\ Len(rpcQueue') > Len(rpcQueue)) =>
             /\ Len(rpcQueue') = Len(rpcQueue) + 1
             /\ rpcQueue'[Len(rpcQueue')].mode = uiConfig.mode]_vars
    /\ [][(last'.op = "setConfigDone" /\ uiConfig'.mode # uiConfig.mode) =>
             /\ uiConfig' = [uiConfig EXCEPT !.mode = "switch"]
             /\ pc # "checkConfig"
             /\ lastLight \in {NoLight, White}]_vars

C16_Witness ==
    /\ last.op = "setConfigDone"
    /\ last.kind = "ok"
    /\ lastLight = NoLight
    /\ uiConfig = [mode |-> "switch", on |-> FactoryOn, off |-> FactoryOff]
    /\ pc \in {"addEventHandler", "disConnected"}

\* C17: a failed fetch (no response, or a status other than 200) completing
\* in the Offline state leaves the state Offline and applies the offline
\* appearance again; when the device already shows it, the write it makes
\* carries the configuration the device has, so any number of repeats
\* leaves the flag, the requested light and the device as one does.
C17_FailureWhileOffline ==
    /\ [][(last'.op = "response" /\ ~isConnected) =>
             \A r \in Responses :
                (HandleResponseOn(r) /\ (r.kind = "absent" \/ r.code # 200))
                   => /\ ~isConnected'
                      /\ Applies(White)
                      /\ UNCHANGED <<pc, dieReason>>]_vars
    /\ [][(/\ last'.op = "response"
           /\ last'.kind = "absent" \/ last'.code # 200
           /\ ~isConnected /\ lastLight = White
           /\ uiConfig = Written(uiConfig, White)) =>
             /\ UNCHANGED <<isConnected, lastLight, uiConfig>>
             /\ \A k \in 1..Len(rpcQueue') : rpcQueue'[k] = uiConfig]_vars

C17_Witness ==
    /\ last.op = "response"
    /\ last.kind = "absent"
    /\ ~last.wasConnected
    /\ ~isConnected
    /\ lastLight = White
    /\ uiConfig.on = [rgb |-> <<100, 100, 100>>, brightness |-> 50]
    /\ rpcQueue = <<uiConfig>>

\* The token is the name of a row of the colour-name table, letter for letter
KnownName(t) == \E i \in 1..Len(COLOR_NAMES) : COLOR_NAMES[i].name = t

\* C18 as stated: checkConfig stops the script for every colour token that
\* is neither a name of the table in the table's letter case nor a '#'
\* followed by exactly six hex digits, a '#' string with more than six
\* characters after the '#' included.
C18_OnlyWellFormedTokensPass ==
    (pc # "checkConfig" /\ Len(priceColorMap) = 1) =>
        LET t == priceColorMap[1].color
        IN  ~(KnownName(t) \/ SixHexDigits(t))
               => pc = "halted" /\ dieReason \in {"color", "hex"}

\* C19 as stated: a status-200 response arriving in the Offline state whose
\* body does not parse, or whose price matches no entry, does not leave the
\* flag set.
C19_OnlineOnlyAfterParse ==
    (/\ last.op = "response" /\ last.code = 200 /\ ~last.wasConnected
     /\ dieReason \in {"parse", "price"})
        => ~isConnected

\* C19 amended: the flag is set by a fetch completion with status 200 and by
\* nothing else, and it is set before the body is looked at: a status-200
\* response arriving in the Offline state whose body does not parse, or
\* whose price matches no entry, sets the flag and then stops the script.
C19_OnlineOnStatusAlone ==
    /\ [][(~isConnected /\ isConnected') =>
             (last'.op = "response" /\ last'.kind # "absent" /\ last'.code = 200)]_vars
    /\ [][(last'.op = "response" /\ last'.kind # "absent" /\ last'.code = 200)
             => isConnected']_vars
    /\ []((dieReason = "parse" \/ dieReason = "price") => (isConnected /\ pc = "halted"))

C19_Witness ==
    /\ pc = "halted"
    /\ dieReason = "parse"
    /\ last.op = "response"
    /\ ~last.wasConnected
    /\ isConnected
    /\ lastLight = White

\* C20: HTTP.GET calls are neither cancelled nor told apart.  A disconnect
\* event leaves the outstanding calls outstanding; when one of them then
\* completes with status 200 and a price that matches, with no fetch issued
\* since the event, the flag goes from Offline to Online and the entry's
\* appearance replaces the offline one.
C20_StaleResponseApplied ==
    /\ [][(last'.op = "event" /\ last'.kind = "disconnect") =>
             (inflight' = inflight /\ last'.afterDisconnect)]_vars
    /\ [][(last.afterDisconnect /\ ~isConnected /\ last'.op = "response") =>
             /\ lastLight = White
             /\ \A r \in Responses :
                   (/\ r.code = 200 /\ r.kind = "price"
                    /\ AtOrBelow(priceColorMap, r.price) # {}
                    /\ HandleResponseOn(r))
                     => /\ isConnected'
                        /\ Applies(RowLight(priceColorMap[Greatest(priceColorMap, r.price) + 1]))
                        /\ lastLight' # White]_vars

C20_Witness ==
    /\ last.op = "response"
    /\ last.afterDisconnect
    /\ ~last.wasConnected
    /\ isConnected
    /\ last.entry >= 0
    /\ lastLight = RowLight(priceColorMap[last.entry + 1])
    /\ lastLight # White

\* C21: a connect event changes neither the flag nor the light.  The flag
\* goes from Offline to Online only in the callback of a status-200
\* response, and only such a callback requests or writes the appearance of
\* a colour map entry.
C21_ConnectEventChangesNothing ==
    /\ [][(last'.op = "event" /\ last'.kind = "connect") =>
             UNCHANGED <<isConnected, lastLight, rpcQueue, uiConfig, pc>>]_vars
    /\ [][(~isConnected /\ isConnected') =>
             (last'.op = "response" /\ last'.kind # "absent" /\ last'.code = 200)]_vars
    /\ [][(\/ lastLight' # lastLight /\ lastLight' # White
           \/ /\ Len(rpcQueue') > Len(rpcQueue)
              /\ last'.op # "checkConfig"
              /\ rpcQueue'[Len(rpcQueue')] # Written(uiConfig, White)) =>
             (last'.op = "response" /\ last'.kind = "price" /\ last'.code = 200)]_vars

C21_Witness ==
    /\ last.op = "event"
    /\ last.kind = "connect"
    /\ last.issued = 1
    /\ ~last.wasConnected
    /\ ~isConnected
    /\ lastLight = White

\* C22: nothing is retried.  The callback of a fetch, succeeded or failed,
\* issues no HTTP.GET and takes its own call off the outstanding ones; a
\* disconnect event issues none; every HTTP.GET is issued by the tick of
\* the startup, a tick of the timer or the tick of a connect event.
C22_NoRetry ==
    /\ [][last'.op = "response" =>
             (inflight' = inflight - 1 /\ last'.issued = 0)]_vars
    /\ [][(last'.op = "event" /\ last'.kind # "connect") =>
             (inflight' = inflight /\ last'.issued = 0)]_vars
    /\ [][inflight' > inflight =>
             /\ \/ last'.op \in {"startTick", "tick"}
                \/ last'.op = "event" /\ last'.kind = "connect"
             /\ last'.issued = 1
             /\ inflight' = inflight + 1]_vars

C22_Witness ==
    /\ last.op = "response"
    /\ last.code # 200
    /\ ~last.wasConnected
    /\ ~isConnected
    /\ inflight = 0
    /\ pc = "running"

\* C23 as stated: no entry of a colour map that passes checkConfig has the
\* offline appearance, so that appearance being the one requested means
\* the flag is Offline.
C23_WhiteMeansOffline ==
    (pc = "running" /\ lastLight = White) =>
        /\ ~isConnected
        /\ last.op = "response" => last.entry = -1

\* The flag is Online and the light requested last is that of a map entry
Recovered ==
    /\ pc = "running"
    /\ isConnected
    /\ \E k \in 1..Len(priceColorMap) : lastLight = EntryLight(priceColorMap[k])

\* C24: once the network is back for good, the script in the Offline state
\* gets to the Online state with the light of a map entry requested; it
\* does not wait for the quarter: in the Offline state a tick issues the
\* fetch at whatever minute it runs.
C24_RecoversAtNextTick ==
    /\ (last.settled /\ pc = "running" /\ ~isConnected) ~> Recovered
    /\ [][(last'.op = "tick" /\ ~isConnected) =>
             (inflight' = inflight + 1 /\ last'.issued = 1)]_vars

C24_Witness ==
    /\ last.settled
    /\ last.op = "response"
    /\ ~last.wasConnected
    /\ last.afterDisconnect = FALSE
    /\ inflightOld = 0
    /\ Recovered

\* C25: once the startup is over and while the script runs, the light
\* requested last is the offline one when the flag is Offline and that of
\* a colour map entry when it is Online; with the LED mode at "switch" all
\* along and no write turned down, the device shows that light as soon as
\* it has processed the write.
C25_FlagMatchesLight ==
    /\ [](pc = "running" =>
            IF isConnected
            THEN \E k \in 1..Len(priceColorMap) :
                    lastLight = RowLight(priceColorMap[k])
            ELSE lastLight = White)
    /\ [][(last'.op \in {"response", "event"} /\ uiConfig.mode = "switch"
                                               /\ lastLight' # lastLight) =>
             rpcQueue' = <<Written(uiConfig, lastLight')>>]_vars
    /\ [][(last'.op = "setConfigDone" /\ last'.kind = "ok" /\ pc = "running"
                                        /\ uiConfig.mode = "switch") =>
             uiConfig' = Written(uiConfig, lastLight)]_vars

C25_Witness ==
    /\ pc = "running"
    /\ last.op = "setConfigDone"
    /\ last.kind = "ok"
    /\ last.afterDisconnect
    /\ ~isConnected
    /\ uiConfig = Written(uiConfig, White)
    /\ uiConfig.mode = "switch"

\* A colour configuration in the device's ranges
InRange(c) ==
    /\ Len(c.rgb) = 3
    /\ \A k \in 1..3 : c.rgb[k] \in 0..100
    /\ c.brightness \in 0..100

\* C26: every colour write of the script carries channels and brightness
\* values in 0..100, the same colour for on and off, the on brightness of
\* the request in the on colour and its off brightness in the off colour.
C26_WritesWellFormed ==
    /\ [][(Len(rpcQueue') > Len(rpcQueue) /\ last'.op # "checkConfig") =>
             LET w == rpcQueue'[Len(rpcQueue')]
             IN  /\ InRange(w.on) /\ InRange(w.off)
                 /\ w.on.rgb = w.off.rgb /\ w.on.rgb = lastLight'.rgb
                 /\ w.on.brightness = lastLight'.on
                 /\ w.off.brightness = lastLight'.off
                 /\ last'.entry >= 0 =>
                       /\ w.on.brightness = priceColorMap[last'.entry + 1].onBrightness
                       /\ w.off.brightness = priceColorMap[last'.entry + 1].offBrightness]_vars
    /\ [](InRange(uiConfig.on) /\ InRange(uiConfig.off))

C26_Witness ==
    /\ last.op = "response"
    /\ last.entry >= 0
    /\ Len(rpcQueue) = 1
    /\ rpcQueue[1].on = [rgb |-> <<100, 27, 0>>, brightness |-> 50]
    /\ rpcQueue[1].off = [rgb |-> <<100, 27, 0>>, brightness |-> 10]

\* The events handleEvents knows, by component and event name
CloudConnected(e) == e.component = "cloud" /\ e.event = "connected"

WifiIpAcquired(e) == e.component = "wifi" /\ e.event = "sta_ip_acquired"

Disconnects(e) ==
    \/ e.component = "wifi" /\ e.event = "sta_disconnected"
    \/ e.component = "cloud" /\ e.event = "disconnected"

\* C27: with the cloud enabled a cloud "connected" event runs tick() and a
\* wifi "sta_ip_acquired" event does nothing; with the cloud disabled it is
\* the other way round; an event that is neither of these nor a disconnect,
\* or whose component or event is not a string, changes neither the flag
\* nor the light and issues no fetch.
C27_EventRouting ==
    [][last'.op = "event" =>
          \A e \in Events :
             LET runsTick == /\ WellFormed(e)
                             /\ IF cloudEnable THEN CloudConnected(e)
                                                ELSE WifiIpAcquired(e)
                 nothing == UNCHANGED <<isConnected, lastLight, rpcQueue,
                                        inflight, pc>>
             IN  \* what the step shows when it handles e ...
                 \/ /\ runsTick =>
                           /\ last'.kind = "connect"
                           /\ ~isConnected => inflight' = inflight + 1
                           /\ UNCHANGED <<isConnected, lastLight, rpcQueue, pc>>
                    /\ ~runsTick => inflight' = inflight
                    /\ (~WellFormed(e) \/ ~(runsTick \/ Disconnects(e))) => nothing
                    /\ (WellFormed(e) /\ cloudEnable /\ WifiIpAcquired(e)) => nothing
                    /\ (WellFormed(e) /\ ~cloudEnable /\ CloudConnected(e)) => nothing
                 \* ... or it does not handle e, on the quarter (minute 0)
                 \* or off it (minute 1)
                 \/ ~(HandleEventsOn(e, 0) \/ HandleEventsOn(e, 1))]_vars

C27_Witness ==
    /\ last.op = "event"
    /\ last.kind = "other"
    /\ ~last.wasConnected
    /\ ~isConnected
    /\ inflight = 0
    /\ pc = "running"

====
